---------------------------- MODULE Spec2Model ----------------------------
(***************************************************************************)
(* A model of scripts/validate-marketplace-pr.mjs: the validation of a     *)
(* proposed marketplace index (pr) against the current one (base).         *)
(*                                                                         *)
(* Text is a sequence of one-character strings, so that trim, lower-case,  *)
(* prefix/suffix tests, the regular expressions and the key sort are       *)
(* computed rather than tabulated.  A JSON value is a tagged record:       *)
(*   [t |-> "undef"]            a property that is absent (JS undefined)   *)
(*   [t |-> "null"]                                                        *)
(*   [t |-> "bool", b |-> ..]                                              *)
(*   [t |-> "num",  n |-> ..]   integers only                              *)
(*   [t |-> "str",  s |-> ..]                                              *)
(*   [t |-> "arr",  el |-> <<v1, ..>>]                                     *)
(*   [t |-> "obj",  kv |-> << <<key, v>>, .. >>]  own properties in order  *)
(***************************************************************************)
EXTENDS Integers, Sequences, FiniteSets, TLC

(***************************************************************************)
(* Characters and text                                                     *)
(***************************************************************************)

\* The printable ASCII characters in code-unit order, from 32 (space); the
\* grave accent (96) is only a place holder.
Ascii ==
  <<" ","!","\"","#","$","%","&","'","(",")","*","+",",","-",".","/",
    "0","1","2","3","4","5","6","7","8","9",":",";","<","=",">","?","@",
    "A","B","C","D","E","F","G","H","I","J","K","L","M","N","O","P","Q",
    "R","S","T","U","V","W","X","Y","Z","[","\\","]","^","_","(grave)",
    "a","b","c","d","e","f","g","h","i","j","k","l","m","n","o","p","q",
    "r","s","t","u","v","w","x","y","z","{","|","}","~">>

CodeUnit(c) == 31 + (CHOOSE i \in 1..Len(Ascii) : Ascii[i] = c)

IsUpperChar(c) == CodeUnit(c) \in 65..90
IsLowerChar(c) == CodeUnit(c) \in 97..122
IsDigitChar(c) == CodeUnit(c) \in 48..57
IsAlphaChar(c) == IsUpperChar(c) \/ IsLowerChar(c)
IsSpaceChar(c) == c = " "

LowerChar(c) == IF IsUpperChar(c) THEN Ascii[CodeUnit(c) + 32 - 31] ELSE c

\* String.prototype.toLowerCase
ToLowerCase(s) == [i \in 1..Len(s) |-> LowerChar(s[i])]

\* String.prototype.trim
RECURSIVE TrimStart(_)
TrimStart(s) ==
  IF s # <<>> /\ IsSpaceChar(Head(s)) THEN TrimStart(Tail(s)) ELSE s

RECURSIVE TrimEnd(_)
TrimEnd(s) ==
  IF s # <<>> /\ IsSpaceChar(s[Len(s)])
  THEN TrimEnd(SubSeq(s, 1, Len(s) - 1)) ELSE s

Trim(s) == TrimEnd(TrimStart(s))

\* String.prototype.startsWith / endsWith
StartsWith(s, p) == Len(p) <= Len(s) /\ SubSeq(s, 1, Len(p)) = p
EndsWith(s, p) ==
  Len(p) <= Len(s) /\ SubSeq(s, Len(s) - Len(p) + 1, Len(s)) = p

\* First position of character c in s, 0 when absent.
IndexOfChar(s, c) ==
  IF \E i \in 1..Len(s) : s[i] = c
  THEN CHOOSE i \in 1..Len(s) : s[i] = c /\ \A j \in 1..(i - 1) : s[j] # c
  ELSE 0

\* Comparison of two texts by code units, as Array.prototype.sort() does
\* with no comparator.
LessStr(a, b) ==
  \/ Len(a) < Len(b) /\ SubSeq(b, 1, Len(a)) = a
  \/ \E i \in 1..Len(a) :
       /\ i <= Len(b)
       /\ SubSeq(a, 1, i - 1) = SubSeq(b, 1, i - 1)
       /\ CodeUnit(a[i]) < CodeUnit(b[i])

\* Decimal digits of a natural number.
RECURSIVE Digits(_)
Digits(n) ==
  IF n < 10 THEN <<Ascii[n + 48 - 31]>>
  ELSE Digits(n \div 10) \o <<Ascii[(n % 10) + 48 - 31]>>

(***************************************************************************)
(* Text literals of the program                                            *)
(***************************************************************************)
s_empty == <<>>
s_proto == <<"_","_","p","r","o","t","o","_","_">>
s_objectObject == <<"[","o","b","j","e","c","t"," ","O","b","j","e","c","t","]">>
s_undefined == <<"u","n","d","e","f","i","n","e","d">>
s_unknown == <<"u","n","k","n","o","w","n">>
s_null == <<"n","u","l","l">>
s_true == <<"t","r","u","e">>
s_false == <<"f","a","l","s","e">>
s_https == <<"h","t","t","p","s",":">>
s_http == <<"h","t","t","p",":">>
s_file == <<"f","i","l","e">>
s_tgz == <<"t","g","z">>
s_distSlash == <<"d","i","s","t","/">>
s_dotTgz == <<".","t","g","z">>
s_schemaVersion == <<"s","c","h","e","m","a","V","e","r","s","i","o","n">>
s_name == <<"n","a","m","e">>
s_plugins == <<"p","l","u","g","i","n","s">>
s_id == <<"i","d">>
s_description == <<"d","e","s","c","r","i","p","t","i","o","n">>
s_readme == <<"r","e","a","d","m","e">>
s_versions == <<"v","e","r","s","i","o","n","s">>
s_version == <<"v","e","r","s","i","o","n">>
s_entry == <<"e","n","t","r","y">>
s_type == <<"t","y","p","e">>
s_path == <<"p","a","t","h">>
s_dist == <<"d","i","s","t">>
s_url == <<"u","r","l">>
s_sha256 == <<"s","h","a","2","5","6">>
s_permissions == <<"p","e","r","m","i","s","s","i","o","n","s">>
s_instances == <<"i","n","s","t","a","n","c","e","s">>
s_network == <<"n","e","t","w","o","r","k">>
s_fs == <<"f","s">>

(***************************************************************************)
(* JSON values                                                             *)
(***************************************************************************)
Undef == [t |-> "undef"]
Null == [t |-> "null"]
Bool(b) == [t |-> "bool", b |-> b]
Num(n) == [t |-> "num", n |-> n]
Str(s) == [t |-> "str", s |-> s]
Arr(el) == [t |-> "arr", el |-> el]
Obj(kv) == [t |-> "obj", kv |-> kv]

HasKey(o, k) == o.t = "obj" /\ \E i \in 1..Len(o.kv) : o.kv[i][1] = k

\* Property read value[k]: undefined when value has no such own property.
Get(value, k) ==
  IF HasKey(value, k)
  THEN value.kv[CHOOSE i \in 1..Len(value.kv) : value.kv[i][1] = k][2]
  ELSE Undef

\* ToBoolean
Truthy(v) ==
  CASE v.t = "undef" -> FALSE
    [] v.t = "null" -> FALSE
    [] v.t = "bool" -> v.b
    [] v.t = "num" -> v.n # 0
    [] v.t = "str" -> v.s # <<>>
    [] OTHER -> TRUE

\* typeof v === 'object' (true of null and of arrays too)
TypeofObject(v) == v.t \in {"obj", "arr", "null"}

\* Array.isArray
IsArray(v) == v.t = "arr"

\* String(v) and template-literal interpolation
RECURSIVE JsString(_)
RECURSIVE JoinComma(_)
JoinComma(el) ==
  IF el = <<>> THEN <<>>
  ELSE (IF Head(el).t \in {"undef", "null"} THEN <<>> ELSE JsString(Head(el)))
       \o (IF Len(el) > 1 THEN <<",">> \o JoinComma(Tail(el)) ELSE <<>>)
JsString(v) ==
  CASE v.t = "undef" -> s_undefined
    [] v.t = "null" -> s_null
    [] v.t = "bool" -> IF v.b THEN s_true ELSE s_false
    [] v.t = "num" -> IF v.n < 0 THEN <<"-">> \o Digits(-v.n) ELSE Digits(v.n)
    [] v.t = "str" -> v.s
    [] v.t = "arr" -> JoinComma(v.el)
    [] OTHER -> s_objectObject

\* a || b
OrElse(a, b) == IF Truthy(a) THEN a ELSE b

(***************************************************************************)
(* Field predicates                                                        *)
(***************************************************************************)
IdMaxLen == 64
Sha256HexLen == 64

isNonEmptyString(value) == value.t = "str" /\ Len(Trim(value.s)) > 0

IsIdChar(c) == IsAlphaChar(c) \/ IsDigitChar(c) \/ c \in {"_", "-"}

\* /^[a-zA-Z0-9_-]{1,64}$/.test(value): test() converts value to a string.
isValidId(value) ==
  LET s == JsString(value)
  IN  Len(s) \in 1..IdMaxLen /\ \A i \in 1..Len(s) : IsIdChar(s[i])

\* A path test that wants an absolute path.
isValidPathAbsolute(value) ==
  isNonEmptyString(value) /\ StartsWith(value.s, <<"/">> \o s_distSlash)

isValidPath(value) ==
  isNonEmptyString(value) /\ StartsWith(value.s, s_distSlash)

IsLowerHexChar(c) == IsDigitChar(c) \/ CodeUnit(c) \in 97..102

\* /^[a-f0-9]{64}$/.test(value), value a text
isValidSha256(s) ==
  Len(s) = Sha256HexLen /\ \A i \in 1..Len(s) : IsLowerHexChar(s[i])

(***************************************************************************)
(* Canonical form: stableObject and stableStringify                        *)
(***************************************************************************)

\* keys.sort(): the texts of S in ascending code-unit order.
RECURSIVE SortedKeys(_)
SortedKeys(S) ==
  IF S = {} THEN <<>>
  ELSE LET m == CHOOSE k \in S : \A o \in S \ {k} : LessStr(k, o)
       IN  <<m>> \o SortedKeys(S \ {m})

\* acc[key] = val on an ordinary object acc.  Every ordinary object inherits
\* the accessor Object.prototype.__proto__, so an assignment to the key
\* "__proto__" runs that setter (it changes or keeps the prototype) and
\* creates no own property; any other key becomes an own property.
AssignProp(acc, key, val) ==
  IF key = s_proto THEN acc
  ELSE IF HasKey(acc, key)
       THEN Obj([i \in 1..Len(acc.kv) |->
                   IF acc.kv[i][1] = key THEN <<key, val>> ELSE acc.kv[i]])
       ELSE Obj(Append(acc.kv, <<key, val>>))

RECURSIVE stableObject(_)
RECURSIVE ReduceKeys(_, _, _)
\* Object.keys(value).sort().reduce((acc, key) => ..., {})
ReduceKeys(value, ks, acc) ==
  IF ks = <<>> THEN acc
  ELSE ReduceKeys(value, Tail(ks),
                  AssignProp(acc, Head(ks), stableObject(Get(value, Head(ks)))))

stableObject(value) ==
  CASE value.t = "arr" ->
         Arr([i \in 1..Len(value.el) |-> stableObject(value.el[i])])
    [] value.t = "obj" ->
         ReduceKeys(value, SortedKeys({value.kv[i][1] : i \in 1..Len(value.kv)}),
                    Obj(<<>>))
    [] OTHER -> value

\* The quoted form of a text in JSON.
RECURSIVE Escape(_)
Escape(s) ==
  IF s = <<>> THEN <<>>
  ELSE (IF Head(s) \in {"\"", "\\"} THEN <<"\\", Head(s)>> ELSE <<Head(s)>>)
       \o Escape(Tail(s))

Quote(s) == <<"\"">> \o Escape(s) \o <<"\"">>

\* JSON.stringify(value) with no indentation, of a value JSON.parse made.
RECURSIVE JSONstringify(_)
RECURSIVE StringifyElems(_)
RECURSIVE StringifyProps(_)
StringifyElems(el) ==
  IF el = <<>> THEN <<>>
  ELSE JSONstringify(Head(el))
       \o (IF Len(el) > 1 THEN <<",">> \o StringifyElems(Tail(el)) ELSE <<>>)
StringifyProps(kv) ==
  IF kv = <<>> THEN <<>>
  ELSE Quote(Head(kv)[1]) \o <<":">> \o JSONstringify(Head(kv)[2])
       \o (IF Len(kv) > 1 THEN <<",">> \o StringifyProps(Tail(kv)) ELSE <<>>)
JSONstringify(value) ==
  CASE value.t = "str" -> Quote(value.s)
    [] value.t = "arr" -> <<"[">> \o StringifyElems(value.el) \o <<"]">>
    [] value.t = "obj" -> <<"{">> \o StringifyProps(value.kv) \o <<"}">>
    [] OTHER -> JsString(value)

\* A stable stringify that passes the sorted top-level keys as the replacer
\* list of JSON.stringify: the list filters the keys at every depth.
RECURSIVE KeepKeys(_, _)
KeepKeys(value, allow) ==
  CASE value.t = "arr" -> Arr([i \in 1..Len(value.el) |-> KeepKeys(value.el[i], allow)])
    [] value.t = "obj" ->
         LET ks == SortedKeys({value.kv[i][1] : i \in 1..Len(value.kv)} \cap allow)
         IN  Obj([i \in 1..Len(ks) |-> <<ks[i], KeepKeys(Get(value, ks[i]), allow)>>])
    [] OTHER -> value
stableStringifyByReplacer(value) ==
  JSONstringify(KeepKeys(value,
    IF value.t = "obj" THEN {value.kv[i][1] : i \in 1..Len(value.kv)} ELSE {}))

stableStringify(value) == JSONstringify(stableObject(value))

(***************************************************************************)
(* URLs, fetch and SHA-256                                                 *)
(***************************************************************************)

\* Position of the first character of s that is in set C, Len(s)+1 if none.
FirstOf(s, C) ==
  IF \E i \in 1..Len(s) : s[i] \in C
  THEN CHOOSE i \in 1..Len(s) : s[i] \in C /\ \A j \in 1..(i - 1) : s[j] \notin C
  ELSE Len(s) + 1

RECURSIVE SkipSlashes(_)
SkipSlashes(s) ==
  IF s # <<>> /\ Head(s) \in {"/", "\\"} THEN SkipSlashes(Tail(s)) ELSE s

IsSchemeChar(c) == IsAlphaChar(c) \/ IsDigitChar(c) \/ c \in {"+", "-", "."}
ForbiddenHostChars == {" ", "<", ">", "^", "|", "[", "]", "%", "\""}

\* new URL(input): [ok, protocol, pathname]; ok = FALSE stands for the
\* TypeError thrown.  The parts of the URL standard that the program reads:
\* the scheme, the host of an http(s) URL, which must not be empty, and the
\* path up to "?" or "#".  Ports, credentials, percent-encoding and dot
\* segments are left out.
ParseURL(input) ==
  LET s == Trim(input)
      colon == IndexOfChar(s, ":")
      scheme == ToLowerCase(SubSeq(s, 1, colon - 1))
      rest == SubSeq(s, colon + 1, Len(s))
      special == (scheme \o <<":">>) \in {s_http, s_https}
      afterSlashes == IF special THEN SkipSlashes(rest)
                      ELSE IF StartsWith(rest, <<"/", "/">>)
                           THEN SubSeq(rest, 3, Len(rest)) ELSE rest
      hasAuthority == special \/ StartsWith(rest, <<"/", "/">>)
      hostEnd == IF hasAuthority
                 THEN FirstOf(afterSlashes, {"/", "\\", "?", "#"}) ELSE 1
      host == SubSeq(afterSlashes, 1, hostEnd - 1)
      tail == SubSeq(afterSlashes, hostEnd, Len(afterSlashes))
      rawPath == SubSeq(tail, 1, FirstOf(tail, {"?", "#"}) - 1)
      path == IF special
              THEN (IF rawPath = <<>> THEN <<"/">>
                    ELSE [i \in 1..Len(rawPath) |->
                            IF rawPath[i] = "\\" THEN "/" ELSE rawPath[i]])
              ELSE rawPath
      schemeOk == /\ colon > 1
                  /\ IsAlphaChar(s[1])
                  /\ \A i \in 1..(colon - 1) : IsSchemeChar(s[i])
      hostOk == ~special \/
                (host # <<>> /\ \A i \in 1..Len(host) : host[i] \notin ForbiddenHostChars)
  IN  IF schemeOk /\ hostOk
      THEN [ok |-> TRUE, protocol |-> scheme \o <<":">>, pathname |-> path]
      ELSE [ok |-> FALSE, protocol |-> <<>>, pathname |-> <<>>]

\* fetch(url) can produce a response only for an http(s) URL; for anything
\* else the promise rejects.
FetchCanRespond(url) ==
  LET u == ParseURL(JsString(url))
  IN  u.ok /\ u.protocol \in {s_http, s_https}

\* The response bodies are the contents 1..NumBodies.
NumBodies == 2
Bodies == 1..NumBodies

HexDigits == <<"0","1","2","3","4","5","6","7","8","9","a","b","c","d","e","f">>

\* crypto.createHash('sha256').update(buffer).digest('hex'): 64 lower-case
\* hex digits, different for different contents (content 1 gives "aa..a",
\* content 2 "bb..b", and so on through the sixteen digits).
Sha256Hex(body) == [i \in 1..Sha256HexLen |-> HexDigits[((body + 9) % 16) + 1]]

\* The non-2xx statuses of a response.
FailStatuses == {404, 500}

(***************************************************************************)
(* Errors, maps                                                            *)
(***************************************************************************)

\* One entry of the errors list: the message template and the texts put
\* into it.
Err(msg, args) == [msg |-> msg, args |-> args]

s_baseLabel == <<"b","a","s","e"," ","i","n","d","e","x",".","j","s","o","n">>
s_prLabel == <<"p","r"," ","i","n","d","e","x",".","j","s","o","n">>
s_slash == <<"/">>

\* a === b for two values read from two parsed documents: objects and arrays
\* are never the same object.
StrictEq(a, b) == a = b /\ a.t \notin {"obj", "arr"}

\* A Map is the sequence of its <<key, value>> entries in insertion order.
MapHas(m, k) == \E i \in 1..Len(m) : StrictEq(m[i][1], k)
MapGet(m, k) ==
  IF MapHas(m, k)
  THEN m[CHOOSE i \in 1..Len(m) : StrictEq(m[i][1], k)][2]
  ELSE Undef
MapSet(m, k, v) ==
  IF MapHas(m, k)
  THEN [i \in 1..Len(m) |-> IF StrictEq(m[i][1], k) THEN <<k, v>> ELSE m[i]]
  ELSE Append(m, <<k, v>>)

(***************************************************************************)
(* The stages of the run                                                   *)
(***************************************************************************)

\* validateIndexShape(index, label): the errors it pushes
validateIndexShapeErrors(index, label) ==
  (IF Get(index, s_schemaVersion) # Num(1)
   THEN <<Err("schemaVersion must be 1", <<label>>)>> ELSE <<>>)
  \o (IF ~isNonEmptyString(Get(index, s_name))
      THEN <<Err("name is required", <<label>>)>> ELSE <<>>)
  \o (IF ~IsArray(Get(index, s_plugins))
      THEN <<Err("plugins must be an array", <<label>>)>> ELSE <<>>)

\* validateIndexShape(index, label): the list it returns
validateIndexShape(index) ==
  IF ~IsArray(Get(index, s_plugins)) THEN <<>> ELSE Get(index, s_plugins).el

NameChangedErrors(base, pr) ==
  IF ~StrictEq(Get(base, s_name), Get(pr, s_name))
  THEN <<Err("top-level name cannot be changed", <<>>)>> ELSE <<>>

\* for (const plugin of basePlugins) ... basePluginMap.set(plugin.id, plugin)
RECURSIVE BuildBasePluginMap(_, _)
BuildBasePluginMap(plugins, m) ==
  IF plugins = <<>> THEN m
  ELSE LET plugin == Head(plugins)
       IN  BuildBasePluginMap(Tail(plugins),
             IF Truthy(plugin) /\ isNonEmptyString(Get(plugin, s_id))
             THEN MapSet(m, Get(plugin, s_id), plugin) ELSE m)

\* ${plugin.id || 'unknown'}
PluginName(plugin) == JsString(OrElse(Get(plugin, s_id), Str(s_unknown)))

IsPluginObject(plugin) == Truthy(plugin) /\ TypeofObject(plugin)

\* The id branch of the pr plugin loop.
PluginIdErrors(plugin, ids) ==
  IF ~isNonEmptyString(Get(plugin, s_id)) \/ ~isValidId(Get(plugin, s_id))
  THEN <<Err("plugin id must match [a-zA-Z0-9_-]{1,64}", <<>>)>>
  ELSE IF Get(plugin, s_id).s \in ids
       THEN <<Err("duplicate plugin id", <<Get(plugin, s_id).s>>)>>
       ELSE <<>>

PluginIdsAfter(plugin, ids) ==
  IF isNonEmptyString(Get(plugin, s_id)) /\ isValidId(Get(plugin, s_id))
  THEN ids \cup {Get(plugin, s_id).s} ELSE ids

ReadmeErrors(plugin) ==
  IF Get(plugin, s_readme) = Undef THEN <<>>
  ELSE LET readmeUrl ==
             ParseURL(Trim(JsString(OrElse(Get(plugin, s_readme), Str(s_empty)))))
       IN  IF ~readmeUrl.ok
           THEN <<Err("readme must be a valid url", <<PluginName(plugin)>>)>>
           ELSE IF readmeUrl.protocol # s_https
                THEN <<Err("readme must use https", <<PluginName(plugin)>>)>>
                ELSE <<>>

\* The errors one iteration of the pr plugin loop pushes for an object entry.
PluginShapeErrors(plugin, ids) ==
  PluginIdErrors(plugin, ids)
  \o (IF ~isNonEmptyString(Get(plugin, s_name))
      THEN <<Err("plugin missing name", <<PluginName(plugin)>>)>> ELSE <<>>)
  \o (IF Get(plugin, s_description) # Undef
         /\ ~isNonEmptyString(Get(plugin, s_description))
      THEN <<Err("plugin description must be non-empty", <<PluginName(plugin)>>)>>
      ELSE <<>>)
  \o ReadmeErrors(plugin)
  \o (IF ~IsArray(Get(plugin, s_versions)) \/ Get(plugin, s_versions).el = <<>>
      THEN <<Err("plugin must have versions", <<PluginName(plugin)>>)>>
      ELSE <<>>)

\* A removal test that looks only at whether pr lists any plugin.
PluginRemovedIfNone(prMap, id) == prMap = <<>>

\* if (!prPlugin) in the removal loop
PluginRemoved(prMap, id) == ~Truthy(MapGet(prMap, id))

\* The baseVersions map of one pr plugin.
RECURSIVE CollectVersions(_, _)
CollectVersions(versions, m) ==
  IF versions = <<>> THEN m
  ELSE LET version == Head(versions)
       IN  CollectVersions(Tail(versions),
             IF Truthy(version) /\ isNonEmptyString(Get(version, s_version))
             THEN MapSet(m, Get(version, s_version), version) ELSE m)

BaseVersionsOf(basePlugin) ==
  IF Truthy(basePlugin) /\ IsArray(Get(basePlugin, s_versions))
  THEN CollectVersions(Get(basePlugin, s_versions).el, <<>>)
  ELSE <<>>

\* `${plugin.id || 'unknown'}/${version?.version || 'unknown'}`
VersionLabel(plugin, version) ==
  PluginName(plugin) \o s_slash
  \o JsString(OrElse(Get(version, s_version), Str(s_unknown)))

IsVersionObject(version) == Truthy(version) /\ TypeofObject(version)

VersionIdErrors(plugin, version, seen) ==
  IF ~isNonEmptyString(Get(version, s_version))
  THEN <<Err("version missing version", <<VersionLabel(plugin, version)>>)>>
  ELSE IF Get(version, s_version).s \in seen
       THEN <<Err("duplicate version",
                  <<Get(version, s_version).s, JsString(Get(plugin, s_id))>>)>>
       ELSE <<>>

SeenAfter(version, seen) ==
  IF isNonEmptyString(Get(version, s_version))
  THEN seen \cup {Get(version, s_version).s} ELSE seen

EntryErrors(label, version) ==
  LET entry == Get(version, s_entry)
  IN  IF \/ ~Truthy(entry)
         \/ Get(entry, s_type) # Str(s_file)
         \/ ~isValidPath(Get(entry, s_path))
      THEN <<Err("entry must be type file with dist/ path", <<label>>)>>
      ELSE <<>>

\* The condition of the first dist error.
DistMalformed(dist) ==
  \/ ~Truthy(dist)
  \/ Get(dist, s_type) # Str(s_tgz)
  \/ ~isNonEmptyString(Get(dist, s_url))
  \/ ~isValidSha256(ToLowerCase(JsString(OrElse(Get(dist, s_sha256), Str(s_empty)))))

DistErrors(label, version) ==
  LET dist == Get(version, s_dist)
      url == ParseURL(Get(dist, s_url).s)
  IN  IF DistMalformed(dist)
      THEN <<Err("dist must include type tgz, url, sha256", <<label>>)>>
      ELSE IF ~url.ok
           THEN <<Err("dist.url is invalid", <<label>>)>>
           ELSE (IF url.protocol # s_https
                 THEN <<Err("dist.url must use https", <<label>>)>> ELSE <<>>)
                \o (IF ~EndsWith(url.pathname, s_dotTgz)
                    THEN <<Err("dist.url must end with .tgz", <<label>>)>>
                    ELSE <<>>)

\* One of permissions.instances / network / fs; anyBad is the result of
\* list.some(...) and is read only when list is an array.
PermissionListErrors(label, list, field, anyBad, elemMsg) ==
  IF list = Undef THEN <<>>
  ELSE IF ~IsArray(list)
       THEN <<Err("permissions field must be an array", <<label, field>>)>>
       ELSE IF anyBad THEN <<Err(elemMsg, <<label, field>>)>> ELSE <<>>

\* (value) => !Number.isInteger(value) || value < 0
NotNonNegativeInteger(value) == value.t # "num" \/ value.n < 0

SomeNotNonNegativeInteger(list) ==
  IsArray(list) /\ \E i \in 1..Len(list.el) : NotNonNegativeInteger(list.el[i])
SomeNotNonEmptyString(list) ==
  IsArray(list) /\ \E i \in 1..Len(list.el) : ~isNonEmptyString(list.el[i])

PermissionsErrors(label, version) ==
  LET permissions == Get(version, s_permissions)
  IN  IF permissions = Undef THEN <<>>
      ELSE IF ~TypeofObject(permissions) \/ permissions = Null
           THEN <<Err("permissions must be an object", <<label>>)>>
           ELSE PermissionListErrors(label, Get(permissions, s_instances),
                  s_instances,
                  SomeNotNonNegativeInteger(Get(permissions, s_instances)),
                  "permissions field must be non-negative integers")
                \o PermissionListErrors(label, Get(permissions, s_network),
                     s_network,
                     SomeNotNonEmptyString(Get(permissions, s_network)),
                     "permissions field must be strings")
                \o PermissionListErrors(label, Get(permissions, s_fs),
                     s_fs, SomeNotNonEmptyString(Get(permissions, s_fs)),
                     "permissions field must be strings")

\* The shape errors of one version object, in the order they are pushed.
VersionShapeErrors(plugin, version, seen) ==
  LET label == VersionLabel(plugin, version)
  IN  VersionIdErrors(plugin, version, seen)
      \o EntryErrors(label, version)
      \o DistErrors(label, version)
      \o PermissionsErrors(label, version)

\* baseCanonical !== prCanonical
VersionModified(baseVersion, version) ==
  stableStringify(baseVersion) # stableStringify(version)

\* A queue test that reads only the url.
HasDownloadUrlOnly(version) == Truthy(Get(Get(version, s_dist), s_url))

\* if (version.dist?.url && version.dist?.sha256)
HasDownload(version) ==
  LET dist == Get(version, s_dist)
  IN  Truthy(Get(dist, s_url)) /\ Truthy(Get(dist, s_sha256))

\* The walk without the `continue` of an existing version.
QueuesDownloadNoContinue(baseVersion, version) == HasDownload(version)

\* Whether the iteration reaches downloads.push: an existing version ends
\* the iteration with `continue` before it.
QueuesDownload(baseVersion, version) ==
  ~Truthy(baseVersion) /\ HasDownload(version)

\* The entry pushed with the sha256 as declared, not lower-cased.
DownloadItemAsDeclared(plugin, version) ==
  [label |-> VersionLabel(plugin, version),
   url |-> Get(Get(version, s_dist), s_url),
   sha256 |-> JsString(Get(Get(version, s_dist), s_sha256))]

\* The entry pushed on downloads.
DownloadItem(plugin, version) ==
  [label |-> VersionLabel(plugin, version),
   url |-> Get(Get(version, s_dist), s_url),
   sha256 |-> ToLowerCase(JsString(Get(Get(version, s_dist), s_sha256)))]

\* if (hash !== sha256) in checkDownload
HashMismatch(hash, sha256) == hash # sha256

(***************************************************************************)
(* State                                                                   *)
(***************************************************************************)
VARIABLES
  baseIndex,      \* the parsed --base document
  prIndex,        \* the parsed --pr document
  pc,             \* where the run is
  errors,         \* the shared errors list
  basePlugins,    \* validateIndexShape(baseIndex, ...)
  prPlugins,      \* validateIndexShape(prIndex, ...)
  basePluginMap,
  prPluginMap,
  prPluginIds,
  idx,            \* position of the loop in progress (plugins, map entries)
  vidx,           \* position in the version list of plugin idx
  baseVersions,   \* the baseVersions map of plugin idx
  seenVersions,
  downloads,      \* the download queue
  didx,           \* position of the download loop
  inflight,       \* the queue positions whose fetch is pending
  result,         \* the result object, Undef until it is built
  \* history, not read by the program:
  errItem,        \* per error: the queue position it is about, 0 if none
  errAt,          \* per error: the <<plugin, version>> position, or <<0, 0>>
  dlSrc,          \* per queue entry: <<plugin position, version position>>
  compared,       \* the <<plugin, version>> positions compared with base
  fetchLog        \* per fetch issued, in order: [item, outcome, body, status]

vars == <<baseIndex, prIndex, pc, errors, basePlugins, prPlugins,
          basePluginMap, prPluginMap, prPluginIds, idx, vidx, baseVersions,
          seenVersions, downloads, didx, inflight, result,
          errItem, errAt, dlSrc, compared, fetchLog>>

inputs == <<baseIndex, prIndex>>
tables == <<basePlugins, prPlugins, basePluginMap, prPluginMap, prPluginIds>>
walk == <<baseVersions, seenVersions, downloads, dlSrc, compared>>
net == <<inflight, fetchLog>>

log == <<errors, errItem, errAt>>

(***************************************************************************)
(* The documents the runs are started on                                   *)
(***************************************************************************)
t_urlGood == <<"h","t","t","p","s",":","/","/","x","/","a",".","t","g","z">>
t_urlHttp == <<"h","t","t","p",":","/","/","x","/","a",".","t","g","z">>
t_urlZip == <<"h","t","t","p","s",":","/","/","x","/","a",".","z","i","p">>
t_urlBad == <<"n","o","t"," ","a"," ","u","r","l">>
t_urlReadme == <<"h","t","t","p","s",":","/","/","x","/","r","e","a","d","m","e">>
t_entryPath == <<"d","i","s","t","/","a",".","j","s">>
t_meta == <<"m","e","t","a">>
t_zip == <<"z","i","p">>
t_desc == <<"f","i","r","s","t">>
t_desc2 == <<"s","e","c","o","n","d">>
t_market == <<"m">>
t_market2 == <<"n">>
t_pluginName == <<"A">>
t_a == <<"a">>
t_b == <<"b">>
t_c == <<"c">>
t_k == <<"k">>
t_x == <<"x">>

\* The number of versions of the largest plugin a pr adds.
MaxNewVersions == 2

VersionText(k) == Digits(k) \o <<".","0">>
Sha(c) == [i \in 1..Sha256HexLen |-> c]

\* Editing of documents.
SetKey(o, key, val) ==
  IF HasKey(o, key)
  THEN Obj([i \in 1..Len(o.kv) |-> IF o.kv[i][1] = key THEN <<key, val>> ELSE o.kv[i]])
  ELSE Obj(Append(o.kv, <<key, val>>))
DelAt(q, i) == SubSeq(q, 1, i - 1) \o SubSeq(q, i + 1, Len(q))
DelKey(o, key) ==
  IF HasKey(o, key)
  THEN Obj(DelAt(o.kv, CHOOSE i \in 1..Len(o.kv) : o.kv[i][1] = key))
  ELSE o
Reverse(q) == [i \in 1..Len(q) |-> q[Len(q) + 1 - i]]

RECURSIVE ReverseKeysDeep(_)
ReverseKeysDeep(value) ==
  CASE value.t = "arr" -> Arr([i \in 1..Len(value.el) |-> ReverseKeysDeep(value.el[i])])
    [] value.t = "obj" ->
         Obj(Reverse([i \in 1..Len(value.kv) |->
                        <<value.kv[i][1], ReverseKeysDeep(value.kv[i][2])>>]))
    [] OTHER -> value

PluginsIn(index) == validateIndexShape(index)
VersionsIn(plugin) ==
  IF IsArray(Get(plugin, s_versions)) THEN Get(plugin, s_versions).el ELSE <<>>
WithPlugins(index, plugins) == SetKey(index, s_plugins, Arr(plugins))
WithVersions(plugin, versions) == SetKey(plugin, s_versions, Arr(versions))
WithPluginAt(index, p, plugin) ==
  WithPlugins(index, [PluginsIn(index) EXCEPT ![p] = plugin])
WithVersionAt(index, p, v, version) ==
  WithPluginAt(index, p,
    WithVersions(PluginsIn(index)[p],
                 [VersionsIn(PluginsIn(index)[p]) EXCEPT ![v] = version]))
VersionAt(index, p, v) == VersionsIn(PluginsIn(index)[p])[v]
WithSha(version, sha) ==
  SetKey(version, s_dist, SetKey(Get(version, s_dist), s_sha256, Str(sha)))

\* The <<plugin, version>> positions of a document.
Positions(index) ==
  UNION {{<<p, v>> : v \in 1..Len(VersionsIn(PluginsIn(index)[p]))} :
         p \in 1..Len(PluginsIn(index))}

Entry == Obj(<< <<s_type, Str(s_file)>>, <<s_path, Str(t_entryPath)>> >>)
Dist(type, url, sha) ==
  Obj(<< <<s_type, Str(type)>>, <<s_url, Str(url)>>, <<s_sha256, Str(sha)>> >>)
MkVersion(ver, dist, extras) ==
  Obj(<< <<s_version, Str(ver)>>, <<s_entry, Entry>>, <<s_dist, dist>> >> \o extras)
MkPlugin(id, extras, versions) ==
  Obj(<< <<s_id, Str(id)>>, <<s_name, Str(t_pluginName)>> >> \o extras
      \o << <<s_versions, Arr(versions)>> >>)
MkIndex(schema, plugins) ==
  Obj(<< <<s_schemaVersion, Num(schema)>>, <<s_name, Str(t_market)>>,
         <<s_plugins, Arr(plugins)>> >>)

Permissions ==
  Obj(<< <<s_instances, Arr(<<Num(0), Num(1)>>)>>,
         <<s_network, Arr(<<Str(t_x)>>)>>,
         <<s_fs, Arr(<<Str(s_distSlash)>>)>> >>)
Meta ==
  Arr(<< Obj(<< <<t_k, Str(t_x)>>, <<t_b, Num(1)>> >>),
         Obj(<< <<t_a, Obj(<< <<t_k, Null>>, <<t_b, Bool(TRUE)>> >>)>> >>) >>)

PluginA ==
  MkPlugin(t_a,
    << <<s_description, Str(t_desc)>>, <<s_readme, Str(t_urlReadme)>> >>,
    << MkVersion(VersionText(1), Dist(s_tgz, t_urlGood, Sha("a")),
                 << <<s_permissions, Permissions>>, <<t_meta, Meta>> >>),
       MkVersion(VersionText(2), Dist(s_tgz, t_urlGood, Sha("b")), <<>>) >>)
PluginB ==
  MkPlugin(t_b, <<>>,
    << MkVersion(VersionText(1), Dist(s_tgz, t_urlGood, Sha("c")),
                 << <<s_proto, Obj(<< <<t_k, Num(1)>> >>)>> >>) >>)
\* A plugin that lists the version 1.0 twice, with different content.
PluginDup ==
  MkPlugin(t_a, <<>>,
    << MkVersion(VersionText(1), Dist(s_tgz, t_urlGood, Sha("a")), <<>>),
       MkVersion(VersionText(1), Dist(s_tgz, t_urlGood, Sha("b")), <<>>) >>)

BaseEmpty == MkIndex(1, <<>>)
BaseTwo == MkIndex(1, <<PluginA, PluginB>>)
\* A document that is no Index: schemaVersion 2, the id "a" used by two
\* plugins, and a version listed twice.
BaseDup ==
  MkIndex(2, <<PluginDup,
               MkPlugin(t_a, <<>>,
                 <<MkVersion(VersionText(2), Dist(s_tgz, t_urlGood, Sha("b")), <<>>)>>)>>)
BaseIndexes == {BaseEmpty, BaseTwo, BaseDup}

\* One character of the sha256 of an existing version changed.
ShaPositions == {1, Sha256HexLen}
ShaChars == {"0", "A", "g"}
ShaEdits(base) ==
  {WithVersionAt(base, pv[1], pv[2],
     WithSha(VersionAt(base, pv[1], pv[2]),
       [Get(Get(VersionAt(base, pv[1], pv[2]), s_dist), s_sha256).s
          EXCEPT ![pos] = ch])) :
     pv \in Positions(base), pos \in ShaPositions, ch \in ShaChars}

\* Same content, other key order.
Reorders(base) ==
  {ReverseKeysDeep(base)}
  \cup {WithVersionAt(base, pv[1], pv[2],
          Obj(Reverse(VersionAt(base, pv[1], pv[2]).kv))) : pv \in Positions(base)}
  \cup {WithVersionAt(base, pv[1], pv[2],
          ReverseKeysDeep(VersionAt(base, pv[1], pv[2]))) : pv \in Positions(base)}

\* A version or a plugin taken out.
Deletions(base) ==
  {WithPluginAt(base, pv[1],
     WithVersions(PluginsIn(base)[pv[1]],
                  DelAt(VersionsIn(PluginsIn(base)[pv[1]]), pv[2]))) :
     pv \in {x \in Positions(base) : Len(VersionsIn(PluginsIn(base)[x[1]])) > 1}}
  \cup {WithPlugins(base, DelAt(PluginsIn(base), p)) : p \in 1..Len(PluginsIn(base))}

\* The content of an existing version changed.
VersionEdits(version) ==
  { SetKey(version, s_description, Str(t_desc2)),
    SetKey(version, s_permissions,
           SetKey(Permissions, s_instances, Arr(<<Num(1), Num(0)>>))),
    SetKey(version, s_permissions,
           SetKey(Permissions, s_instances, Arr(<<Num(0), Num(2)>>))),
    SetKey(version, t_meta, Arr(Reverse(Meta.el))),
    SetKey(version, t_meta, Arr(<<Meta.el[1], Obj(<< <<t_a, Obj(<< <<t_k, Null>>, <<t_b, Bool(FALSE)>> >>)>> >>)>>)),
    SetKey(version, t_meta, Arr(<<Meta.el[1]>>)),
    SetKey(version, s_proto, Obj(<< <<t_k, Num(2)>> >>)),
    SetKey(version, s_proto, Str(t_x)),
    DelKey(version, s_entry),
    SetKey(version, s_dist, SetKey(Get(version, s_dist), s_url, Str(t_urlHttp))) }
Edits(base) ==
  UNION {{WithVersionAt(base, pv[1], pv[2], e) :
            e \in VersionEdits(VersionAt(base, pv[1], pv[2]))} :
         pv \in Positions(base)}
  \ {base}

\* New plugins and new versions.
GoodVersion(k) == MkVersion(VersionText(k), Dist(s_tgz, t_urlGood, Sha256Hex(1)), <<>>)
GoodVersions(n) == [k \in 1..n |-> GoodVersion(k)]
NewDists ==
  { Dist(s_tgz, t_urlGood, Sha256Hex(1)),
    Dist(s_tgz, t_urlGood, Sha("A")),
    Dist(t_zip, t_urlGood, Sha256Hex(1)),
    Dist(s_tgz, s_empty, Sha256Hex(1)),
    Dist(s_tgz, <<" ">>, Sha256Hex(1)),
    Dist(s_tgz, t_urlGood, SubSeq(Sha256Hex(1), 2, Sha256HexLen)),
    Dist(s_tgz, t_urlGood, s_empty),
    DelKey(Dist(s_tgz, t_urlGood, Sha256Hex(1)), s_sha256),
    Dist(s_tgz, t_urlBad, Sha256Hex(1)),
    Dist(s_tgz, t_urlHttp, Sha256Hex(1)),
    Dist(s_tgz, t_urlZip, Sha256Hex(1)),
    Null }
NewVersionLists ==
  {GoodVersions(n) : n \in 1..MaxNewVersions}
  \cup {<<MkVersion(VersionText(1), d, <<>>)>> : d \in NewDists}
  \cup { <<DelKey(GoodVersion(1), s_dist)>>,
         <<GoodVersion(1), GoodVersion(1)>>,
         <<SetKey(GoodVersion(1), s_permissions, Permissions)>>,
         <<SetKey(GoodVersion(1), s_permissions,
                  Obj(<< <<s_instances, Arr(<<Num(-1)>>)>>,
                         <<s_network, Str(t_x)>>,
                         <<s_fs, Arr(<<Num(1)>>)>> >>))>>,
         <<SetKey(GoodVersion(1), s_permissions, Null)>>,
         <<DelKey(GoodVersion(1), s_version), Str(t_x)>>,
         <<MkVersion(VersionText(1), Dist(t_zip, t_urlGood, Sha256Hex(1)), <<>>),
           GoodVersion(2)>>,
         <<MkVersion(VersionText(1), Dist(s_tgz, t_urlGood, s_empty), <<>>),
           MkVersion(VersionText(2), Dist(s_tgz, t_urlHttp, Sha256Hex(1)), <<>>)>> }
NewPlugins ==
  {MkPlugin(t_c, <<>>, vs) : vs \in NewVersionLists}
  \cup { MkPlugin(t_c, << <<s_description, Str(t_desc)>>,
                          <<s_readme, Str(t_urlReadme)>> >>, GoodVersions(1)),
         MkPlugin(t_c, << <<s_description, Str(s_empty)>>,
                          <<s_readme, Str(t_urlHttp)>> >>, GoodVersions(1)),
         MkPlugin(t_c, << <<s_readme, Str(t_urlBad)>> >>, <<>>),
         MkPlugin(t_a, <<>>, GoodVersions(1)),
         MkPlugin(<<"c", ".">>, <<>>, GoodVersions(1)),
         DelKey(DelKey(MkPlugin(t_c, <<>>, GoodVersions(1)), s_id), s_name),
         Null,
         Str(t_c) }
Additions(base) ==
  {WithPlugins(base, Append(PluginsIn(base), np)) : np \in NewPlugins}
  \cup {WithPluginAt(base, p,
          WithVersions(PluginsIn(base)[p],
            Append(VersionsIn(PluginsIn(base)[p]), MkVersion(VersionText(3), d, <<>>)))) :
          p \in 1..Len(PluginsIn(base)), d \in NewDists}
  \cup {WithPlugins(base, <<MkPlugin(t_c, <<>>, GoodVersions(1))>> \o PluginsIn(base))}

\* A change of the existing content together with a new plugin.
Mixed(base) ==
  {WithPlugins(e, Append(PluginsIn(e), MkPlugin(t_c, <<>>, GoodVersions(1)))) :
     e \in ShaEdits(base) \cup Deletions(base)}

\* The top level changed.
TopEdits(base) ==
  { SetKey(base, s_name, Str(t_market2)),
    SetKey(base, s_schemaVersion, Num(2)),
    SetKey(base, s_plugins, Null),
    DelKey(base, s_name) }

PrIndexes(base) ==
  {base} \cup ShaEdits(base) \cup Deletions(base) \cup TopEdits(base)
  \cup (IF base = BaseDup
        THEN {WithPlugins(base, Append(PluginsIn(base),
                                       MkPlugin(t_c, <<>>, GoodVersions(1))))}
        ELSE Reorders(base) \cup Edits(base) \cup Additions(base) \cup Mixed(base))

(***************************************************************************)
(* The run                                                                 *)
(***************************************************************************)
Init ==
  /\ \E base \in BaseIndexes : \E pr \in PrIndexes(base) :
       baseIndex = base /\ prIndex = pr
  /\ pc = "shape"
  /\ errors = <<>>
  /\ basePlugins = <<>>
  /\ prPlugins = <<>>
  /\ basePluginMap = <<>>
  /\ prPluginMap = <<>>
  /\ prPluginIds = {}
  /\ idx = 1
  /\ vidx = 1
  /\ baseVersions = <<>>
  /\ seenVersions = {}
  /\ downloads = <<>>
  /\ didx = 1
  /\ inflight = {}
  /\ result = Undef
  /\ errItem = <<>>
  /\ errAt = <<>>
  /\ dlSrc = <<>>
  /\ compared = {}
  /\ fetchLog = <<>>

\* errors.push(...) of the entries errs, all about queue position item and
\* the version at position at.
Push(errs, item, at) ==
  /\ errors' = errors \o errs
  /\ errItem' = errItem \o [i \in 1..Len(errs) |-> item]
  /\ errAt' = errAt \o [i \in 1..Len(errs) |-> at]

\* The two validateIndexShape calls and the comparison of the names.
ValidateShapes ==
  /\ pc = "shape"
  /\ Push(validateIndexShapeErrors(baseIndex, s_baseLabel)
          \o validateIndexShapeErrors(prIndex, s_prLabel)
          \o NameChangedErrors(baseIndex, prIndex), 0, <<0, 0>>)
  /\ basePlugins' = validateIndexShape(baseIndex)
  /\ prPlugins' = validateIndexShape(prIndex)
  /\ pc' = "baseMap"
  /\ UNCHANGED <<inputs, basePluginMap, prPluginMap, prPluginIds, idx, vidx,
                 walk, didx, net, result>>

\* The loop that fills basePluginMap.
BuildBaseMap ==
  /\ pc = "baseMap"
  /\ basePluginMap' = BuildBasePluginMap(basePlugins, <<>>)
  /\ pc' = "prPlugins"
  /\ idx' = 1
  /\ UNCHANGED <<inputs, log, basePlugins, prPlugins, prPluginMap,
                 prPluginIds, vidx, walk, didx, net, result>>

\* One iteration of the pr plugin loop.
CheckPrPlugin ==
  /\ pc = "prPlugins"
  /\ idx <= Len(prPlugins)
  /\ LET plugin == prPlugins[idx]
     IN  IF ~IsPluginObject(plugin)
         THEN /\ Push(<<Err("plugin entry must be an object", <<>>)>>, 0, <<0, 0>>)
              /\ UNCHANGED <<prPluginIds, prPluginMap>>
         ELSE /\ Push(PluginShapeErrors(plugin, prPluginIds), 0, <<0, 0>>)
              /\ prPluginIds' = PluginIdsAfter(plugin, prPluginIds)
              /\ prPluginMap' = MapSet(prPluginMap, Get(plugin, s_id), plugin)
  /\ idx' = idx + 1
  /\ UNCHANGED <<inputs, pc, basePlugins, prPlugins, basePluginMap, vidx,
                 walk, didx, net, result>>

PrPluginsDone ==
  /\ pc = "prPlugins"
  /\ idx > Len(prPlugins)
  /\ pc' = "removal"
  /\ idx' = 1
  /\ UNCHANGED <<inputs, log, tables, vidx, walk, didx, net, result>>

\* One iteration of the removal loop over basePluginMap.entries().
CheckRemoval ==
  /\ pc = "removal"
  /\ idx <= Len(basePluginMap)
  /\ LET id == basePluginMap[idx][1]
     IN  IF PluginRemoved(prPluginMap, id)
         THEN Push(<<Err("plugin removed", <<id.s>>)>>, 0, <<0, 0>>)
         ELSE UNCHANGED log
  /\ idx' = idx + 1
  /\ UNCHANGED <<inputs, pc, tables, vidx, walk, didx, net, result>>

RemovalDone ==
  /\ pc = "removal"
  /\ idx > Len(basePluginMap)
  /\ pc' = "walk"
  /\ idx' = 1
  /\ UNCHANGED <<inputs, log, tables, vidx, walk, didx, net, result>>

\* The head of one iteration of the version walk: the plugin is skipped, or
\* its baseVersions map is built and its version list entered.
WalkPlugin ==
  /\ pc = "walk"
  /\ idx <= Len(prPlugins)
  /\ LET plugin == prPlugins[idx]
     IN  IF ~IsPluginObject(plugin)
         THEN /\ idx' = idx + 1
              /\ UNCHANGED <<pc, vidx, baseVersions, seenVersions>>
         ELSE /\ baseVersions' =
                   BaseVersionsOf(MapGet(basePluginMap, Get(plugin, s_id)))
              /\ IF ~IsArray(Get(plugin, s_versions))
                 THEN /\ idx' = idx + 1
                      /\ UNCHANGED <<pc, vidx, seenVersions>>
                 ELSE /\ pc' = "versions"
                      /\ vidx' = 1
                      /\ seenVersions' = {}
                      /\ UNCHANGED idx
  /\ UNCHANGED <<inputs, log, tables, downloads, dlSrc, compared,
                 didx, net, result>>

\* One iteration of the loop over plugin.versions.
WalkVersion ==
  /\ pc = "versions"
  /\ vidx <= Len(Get(prPlugins[idx], s_versions).el)
  /\ LET plugin == prPlugins[idx]
         version == Get(plugin, s_versions).el[vidx]
         versionLabel == VersionLabel(plugin, version)
         baseVersion == MapGet(baseVersions, Get(version, s_version))
     IN  IF ~IsVersionObject(version)
         THEN /\ Push(<<Err("version must be an object", <<versionLabel>>)>>,
                      0, <<idx, vidx>>)
              /\ UNCHANGED <<seenVersions, downloads, dlSrc, compared>>
         ELSE /\ seenVersions' = SeenAfter(version, seenVersions)
              /\ Push(VersionShapeErrors(plugin, version, seenVersions)
                      \o (IF Truthy(baseVersion)
                             /\ VersionModified(baseVersion, version)
                          THEN <<Err("modifies existing version", <<versionLabel>>)>>
                          ELSE <<>>),
                      0, <<idx, vidx>>)
              /\ compared' = IF Truthy(baseVersion)
                             THEN compared \cup {<<idx, vidx>>} ELSE compared
              /\ IF QueuesDownload(baseVersion, version)
                 THEN /\ downloads' = Append(downloads, DownloadItem(plugin, version))
                      /\ dlSrc' = Append(dlSrc, <<idx, vidx>>)
                 ELSE UNCHANGED <<downloads, dlSrc>>
  /\ vidx' = vidx + 1
  /\ UNCHANGED <<inputs, pc, tables, idx, baseVersions, didx, net, result>>

VersionsDone ==
  /\ pc = "versions"
  /\ vidx > Len(Get(prPlugins[idx], s_versions).el)
  /\ pc' = "walk"
  /\ idx' = idx + 1
  /\ UNCHANGED <<inputs, log, tables, vidx, walk, didx, net, result>>

WalkDone ==
  /\ pc = "walk"
  /\ idx > Len(prPlugins)
  /\ pc' = "download"
  /\ didx' = 1
  /\ UNCHANGED <<inputs, log, tables, idx, vidx, walk, net, result>>

\* checkDownload(item) is called and reaches `await fetch(url)`.
FetchStart ==
  /\ pc = "download"
  /\ didx <= Len(downloads)
  /\ inflight' = inflight \cup {didx}
  /\ pc' = "fetching"
  /\ UNCHANGED <<inputs, log, tables, idx, vidx, walk, didx,
                 fetchLog, result>>

Logged(outcome, body, status) ==
  fetchLog' = Append(fetchLog, [item |-> didx, outcome |-> outcome,
                                body |-> body, status |-> status])

\* The fetch resolves with a 2xx response whose bytes are body.
FetchOk(body) ==
  /\ pc = "fetching"
  /\ FetchCanRespond(downloads[didx].url)
  /\ IF HashMismatch(Sha256Hex(body), downloads[didx].sha256)
     THEN Push(<<Err("dist sha256 mismatch", <<downloads[didx].label>>)>>,
               didx, dlSrc[didx])
     ELSE UNCHANGED log
  /\ Logged("ok", body, 200)
  /\ inflight' = inflight \ {didx}
  /\ didx' = didx + 1
  /\ pc' = "download"
  /\ UNCHANGED <<inputs, tables, idx, vidx, walk, result>>

\* The fetch resolves with a response that is not ok.
FetchNotOk(status) ==
  /\ pc = "fetching"
  /\ FetchCanRespond(downloads[didx].url)
  /\ Push(<<Err("dist download failed",
                <<downloads[didx].label, Digits(status)>>)>>, didx, dlSrc[didx])
  /\ Logged("not ok", 0, status)
  /\ inflight' = inflight \ {didx}
  /\ didx' = didx + 1
  /\ pc' = "download"
  /\ UNCHANGED <<inputs, tables, idx, vidx, walk, result>>

\* The fetch rejects (no connection, or a url fetch cannot use).  Nothing
\* catches the rejection: it leaves checkDownload and the module's top level,
\* and the process ends without building the result.
FetchReject ==
  /\ pc = "fetching"
  /\ Logged("rejected", 0, 0)
  /\ inflight' = inflight \ {didx}
  /\ pc' = "crashed"
  /\ UNCHANGED <<inputs, log, tables, idx, vidx, walk, didx, result>>

\* const result = { ok: errors.length === 0, errors }
Finish ==
  /\ pc = "download"
  /\ didx > Len(downloads)
  /\ result' = [ok |-> Len(errors) = 0, errors |-> errors]
  /\ pc' = "done"
  /\ UNCHANGED <<inputs, log, tables, idx, vidx, walk, didx, net>>

Next ==
  \/ ValidateShapes
  \/ BuildBaseMap
  \/ CheckPrPlugin
  \/ PrPluginsDone
  \/ CheckRemoval
  \/ RemovalDone
  \/ WalkPlugin
  \/ WalkVersion
  \/ VersionsDone
  \/ WalkDone
  \/ FetchStart
  \/ \E body \in Bodies : FetchOk(body)
  \/ \E status \in FailStatuses : FetchNotOk(status)
  \/ FetchReject
  \/ Finish

Spec == Init /\ [][Next]_vars

(***************************************************************************)
(* Vocabulary of the properties                                            *)
(***************************************************************************)
AfterWalk == pc \in {"download", "fetching", "done", "crashed"}
AfterRemoval == pc \in {"walk", "versions"} \/ AfterWalk
Ended == pc \in {"done", "crashed"}

IsText(v) == v.t = "str" /\ \E i \in 1..Len(v.s) : v.s[i] # " "

\* The identity rules of an Index: its plugins are objects with distinct
\* text ids, and the versions of each are objects with distinct text
\* version strings.
IdentityOK(index) ==
  LET ps == PluginsIn(index)
  IN  /\ IsArray(Get(index, s_plugins))
      /\ \A p \in 1..Len(ps) :
           /\ ps[p].t = "obj"
           /\ IsText(Get(ps[p], s_id))
           /\ IsArray(Get(ps[p], s_versions))
           /\ \A q \in 1..Len(ps) : p # q => Get(ps[p], s_id) # Get(ps[q], s_id)
           /\ LET vs == VersionsIn(ps[p])
              IN  \A v \in 1..Len(vs) :
                    /\ vs[v].t = "obj"
                    /\ IsText(Get(vs[v], s_version))
                    /\ \A w \in 1..Len(vs) :
                         v # w => Get(vs[v], s_version) # Get(vs[w], s_version)

IsHttpsTgzUrl(v) ==
  /\ IsText(v)
  /\ ParseURL(v.s).ok
  /\ ParseURL(v.s).protocol = s_https
  /\ EndsWith(ParseURL(v.s).pathname, s_dotTgz)

IsNatList(list) ==
  list.t = "arr" /\ \A i \in 1..Len(list.el) : list.el[i].t = "num" /\ list.el[i].n >= 0
IsTextList(list) ==
  list.t = "arr" /\ \A i \in 1..Len(list.el) : IsText(list.el[i])

\* A Version of the data model.
WellFormedVersion(version) ==
  LET entry == Get(version, s_entry)
      dist == Get(version, s_dist)
      perm == Get(version, s_permissions)
  IN  /\ version.t = "obj"
      /\ IsText(Get(version, s_version))
      /\ entry.t = "obj"
      /\ Get(entry, s_type) = Str(s_file)
      /\ IsText(Get(entry, s_path))
      /\ StartsWith(Get(entry, s_path).s, s_distSlash)
      /\ dist.t = "obj"
      /\ Get(dist, s_type) = Str(s_tgz)
      /\ IsHttpsTgzUrl(Get(dist, s_url))
      /\ Get(dist, s_sha256).t = "str"
      /\ Len(Get(dist, s_sha256).s) = Sha256HexLen
      /\ \A i \in 1..Sha256HexLen :
           \E d \in 1..Len(HexDigits) : Get(dist, s_sha256).s[i] = HexDigits[d]
      /\ \/ perm = Undef
         \/ /\ perm.t = "obj"
            /\ Get(perm, s_instances) = Undef \/ IsNatList(Get(perm, s_instances))
            /\ Get(perm, s_network) = Undef \/ IsTextList(Get(perm, s_network))
            /\ Get(perm, s_fs) = Undef \/ IsTextList(Get(perm, s_fs))

\* A Plugin of the data model.
WellFormedPlugin(plugin) ==
  /\ plugin.t = "obj"
  /\ IsText(Get(plugin, s_id))
  /\ Len(Get(plugin, s_id).s) <= IdMaxLen
  /\ \A i \in 1..Len(Get(plugin, s_id).s) :
       LET c == CodeUnit(Get(plugin, s_id).s[i])
       IN  c \in (48..57) \cup (65..90) \cup (97..122) \cup {45, 95}
  /\ IsText(Get(plugin, s_name))
  /\ Get(plugin, s_description) = Undef \/ IsText(Get(plugin, s_description))
  /\ \/ Get(plugin, s_readme) = Undef
     \/ /\ IsText(Get(plugin, s_readme))
        /\ ParseURL(Get(plugin, s_readme).s).ok
        /\ ParseURL(Get(plugin, s_readme).s).protocol = s_https
  /\ Get(plugin, s_versions).t = "arr"
  /\ Get(plugin, s_versions).el # <<>>
  /\ \A v \in 1..Len(VersionsIn(plugin)) : WellFormedVersion(VersionsIn(plugin)[v])

\* An Index of the data model.
WellFormedIndex(index) ==
  /\ index.t = "obj"
  /\ Get(index, s_schemaVersion) = Num(1)
  /\ IsText(Get(index, s_name))
  /\ IdentityOK(index)
  /\ \A p \in 1..Len(PluginsIn(index)) : WellFormedPlugin(PluginsIn(index)[p])

PrPluginAt(at) == PluginsIn(prIndex)[at[1]]
PrVersionAt(at) == VersionAt(prIndex, at[1], at[2])

\* "<pluginId>/<version>"
LabelOf(plugin, version) ==
  Get(plugin, s_id).s \o <<"/">> \o Get(version, s_version).s

\* The base versions with the plugin id and the version string of the pr
\* version at position at.
BaseCounterparts(at) ==
  {pv \in Positions(baseIndex) :
     /\ Get(PluginsIn(baseIndex)[pv[1]], s_id).t = "str"
     /\ Get(PluginsIn(baseIndex)[pv[1]], s_id) = Get(PrPluginAt(at), s_id)
     /\ Get(VersionAt(baseIndex, pv[1], pv[2]), s_version).t = "str"
     /\ Get(VersionAt(baseIndex, pv[1], pv[2]), s_version)
          = Get(PrVersionAt(at), s_version)}
ExistsInBase(at) == BaseCounterparts(at) # {}

\* The pr plugin at position p has no base counterpart.
IsNewPlugin(p) ==
  \A q \in 1..Len(PluginsIn(baseIndex)) :
    Get(PluginsIn(baseIndex)[q], s_id) # Get(PluginsIn(prIndex)[p], s_id)

\* The positions of the version objects of pr the walk has passed, or all of
\* them once the walk is over.
Walked ==
  {at \in Positions(prIndex) :
     /\ pc # "shape"
     /\ IsPluginObject(PrPluginAt(at))
     /\ \/ AfterWalk
        \/ pc \in {"walk", "versions"} /\ at[1] < idx
        \/ pc = "versions" /\ at[1] = idx /\ at[2] < vidx}

Queued == {dlSrc[k] : k \in 1..Len(dlSrc)}
ErrorsAbout(msg) == {i \in 1..Len(errors) : errors[i].msg = msg}
IntegrityErrors == {i \in 1..Len(errors) : errItem[i] > 0}

\* Equality of two JSON values up to the order of object keys.
RECURSIVE JsonEquiv(_, _)
JsonEquiv(a, b) ==
  /\ a.t = b.t
  /\ CASE a.t = "arr" ->
            /\ Len(a.el) = Len(b.el)
            /\ \A i \in 1..Len(a.el) : JsonEquiv(a.el[i], b.el[i])
       [] a.t = "obj" ->
            /\ {a.kv[i][1] : i \in 1..Len(a.kv)} = {b.kv[i][1] : i \in 1..Len(b.kv)}
            /\ \A i \in 1..Len(a.kv) : JsonEquiv(a.kv[i][2], Get(b, a.kv[i][1]))
       [] OTHER -> a = b

(***************************************************************************)
(* C1                                                                      *)
(***************************************************************************)

\* pr is base with one character of the sha256 of the base version at pv
\* changed.
IsShaEdit(pv) ==
  LET bv == VersionAt(baseIndex, pv[1], pv[2])
      bsha == Get(Get(bv, s_dist), s_sha256)
      psha == Get(Get(PrVersionAt(pv), s_dist), s_sha256)
  IN  /\ pv \in Positions(prIndex)
      /\ bsha.t = "str" /\ psha.t = "str"
      /\ Len(bsha.s) = Len(psha.s)
      /\ Cardinality({i \in 1..Len(bsha.s) : bsha.s[i] # psha.s[i]}) = 1
      /\ prIndex = WithVersionAt(baseIndex, pv[1], pv[2], WithSha(bv, psha.s))

\* C1: when pr is an Index base with one character changed inside the
\* dist.sha256 of an existing version, the run reports exactly one "modifies
\* existing version" error, that error carries the label
\* "<pluginId>/<version>" of the changed version, and the result has
\* ok = false.
C1_ShaEditReported ==
  AfterWalk =>
    \A pv \in Positions(baseIndex) :
      (IdentityOK(baseIndex) /\ IsShaEdit(pv)) =>
        /\ Cardinality(ErrorsAbout("modifies existing version")) = 1
        /\ \A i \in ErrorsAbout("modifies existing version") :
             /\ errors[i].args = <<LabelOf(PrPluginAt(pv), PrVersionAt(pv))>>
             /\ errAt[i] = pv
        /\ pc # "crashed"
        /\ pc = "done" => (result.ok = FALSE /\ result.errors = errors)

C1_Witness ==
  /\ pc = "done"
  /\ result.ok = FALSE
  /\ IdentityOK(baseIndex)
  /\ \E pv \in Positions(baseIndex) :
       /\ IsShaEdit(pv)
       /\ \E i \in 1..Len(errors) :
            errors[i] = Err("modifies existing version",
                            <<LabelOf(PrPluginAt(pv), PrVersionAt(pv))>>)

(***************************************************************************)
(* C2                                                                      *)
(***************************************************************************)

\* The base version at pv is gone from pr although pr keeps its plugin, with
\* at least one version.
IsDeletedVersion(pv) ==
  LET id == Get(PluginsIn(baseIndex)[pv[1]], s_id)
      kept == {p \in 1..Len(PluginsIn(prIndex)) : Get(PluginsIn(prIndex)[p], s_id) = id}
  IN  /\ kept # {}
      /\ \A p \in kept :
           /\ VersionsIn(PluginsIn(prIndex)[p]) # <<>>
           /\ \A v \in 1..Len(VersionsIn(PluginsIn(prIndex)[p])) :
                Get(VersionAt(prIndex, p, v), s_version)
                  # Get(VersionAt(baseIndex, pv[1], pv[2]), s_version)

\* C2: history is append-only for versions: when base contains version v of
\* plugin p and pr keeps plugin p without version v, the run reports an error
\* and the result has ok = false.
C2_DeletedVersionRejected ==
  pc = "done" =>
    \A pv \in Positions(baseIndex) :
      (IdentityOK(baseIndex) /\ IsDeletedVersion(pv)) =>
        (errors # <<>> /\ result.ok = FALSE)

(***************************************************************************)
(* C3                                                                      *)
(***************************************************************************)

\* The id of the base plugin at position q is the id of no pr plugin entry.
IsRemovedPlugin(q) ==
  /\ IsText(Get(PluginsIn(baseIndex)[q], s_id))
  /\ \A p \in 1..Len(PluginsIn(prIndex)) :
       Get(PluginsIn(prIndex)[p], s_id) # Get(PluginsIn(baseIndex)[q], s_id)

\* C3: for every plugin id of base that no pr plugin entry has, the run
\* appends a "removed" error naming that id and the result has ok = false,
\* whatever else pr adds or changes; the run does not stop there: it goes on
\* through the walk and the downloads, and only a rejected fetch ends it
\* before the result.
C3_RemovalReported ==
  /\ AfterRemoval =>
       \A q \in 1..Len(PluginsIn(baseIndex)) :
         IsRemovedPlugin(q) =>
           /\ \E i \in 1..Len(errors) :
                errors[i] = Err("plugin removed",
                                <<Get(PluginsIn(baseIndex)[q], s_id).s>>)
           /\ pc = "done" => (result.ok = FALSE /\ Len(fetchLog) = Len(downloads))
  /\ ErrorsAbout("plugin removed") # {} =>
       (pc = "crashed" => fetchLog[Len(fetchLog)].outcome = "rejected")

C3_Witness ==
  /\ pc = "done"
  /\ result.ok = FALSE
  /\ Len(fetchLog) > 0
  /\ \E q \in 1..Len(PluginsIn(baseIndex)) :
       /\ IsRemovedPlugin(q)
       /\ \E i \in 1..Len(errors) : errors[i].msg = "plugin removed"
  /\ \E p \in 1..Len(PluginsIn(prIndex)) : IsNewPlugin(p)

(***************************************************************************)
(* C4                                                                      *)
(***************************************************************************)

\* pr is base with one more plugin, at position p, that is a Plugin of the
\* data model and whose id base does not use.
IsBasePlusPlugin(p) ==
  /\ p \in 1..Len(PluginsIn(prIndex))
  /\ Len(PluginsIn(prIndex)) = Len(PluginsIn(baseIndex)) + 1
  /\ DelAt(PluginsIn(prIndex), p) = PluginsIn(baseIndex)
  /\ prIndex = WithPlugins(baseIndex, PluginsIn(prIndex))
  /\ WellFormedPlugin(PluginsIn(prIndex)[p])
  /\ \A v, w \in 1..Len(VersionsIn(PluginsIn(prIndex)[p])) :
       v # w => Get(VersionAt(prIndex, p, v), s_version)
                  # Get(VersionAt(prIndex, p, w), s_version)
  /\ IsNewPlugin(p)

\* Every fetch so far returned bytes whose SHA-256 is the declared sha256.
FetchesMatch ==
  \A k \in 1..Len(fetchLog) :
    /\ fetchLog[k].outcome = "ok"
    /\ Str(Sha256Hex(fetchLog[k].body))
         = Get(Get(PrVersionAt(dlSrc[fetchLog[k].item]), s_dist), s_sha256)

\* C4: when base is an Index and pr is base plus one new well-formed plugin
\* with a fresh id, and every fetch of a new version's dist.url succeeds with
\* bytes whose SHA-256 is the declared one, the run ends with ok = true and
\* an empty error list.
C4_AdditionAccepted ==
  \A p \in 1..Len(PluginsIn(prIndex)) :
    (FetchesMatch /\ IsBasePlusPlugin(p) /\ WellFormedIndex(baseIndex)) =>
      /\ errors = <<>>
      /\ pc # "crashed"
      /\ pc = "done" =>
           /\ result = [ok |-> TRUE, errors |-> <<>>]
           /\ Len(fetchLog) = Len(VersionsIn(PluginsIn(prIndex)[p]))

C4_Witness ==
  /\ pc = "done"
  /\ result.ok = TRUE
  /\ WellFormedIndex(baseIndex)
  /\ PluginsIn(baseIndex) # <<>>
  /\ \E p \in 1..Len(PluginsIn(prIndex)) : IsBasePlusPlugin(p)
  /\ FetchesMatch
  /\ Len(fetchLog) > 1

(***************************************************************************)
(* C5                                                                      *)
(***************************************************************************)

\* C5: the comparison ignores the order of object keys at every depth and
\* nothing else: for a pr version that exists in base, a "modifies existing
\* version" error is reported exactly when the two versions differ in
\* something other than key order (a scalar, an array's elements or their
\* order, the set of keys).
C5_ModifiedIffDifferent ==
  IdentityOK(baseIndex) =>
    \A at \in Walked :
      ExistsInBase(at) =>
        \A pv \in BaseCounterparts(at) :
          (\E i \in ErrorsAbout("modifies existing version") : errAt[i] = at)
            <=> ~JsonEquiv(VersionAt(baseIndex, pv[1], pv[2]), PrVersionAt(at))

\* The half of C5 the program keeps: versions that differ only in key order
\* are not reported.
C5_ReorderNotReported ==
  IdentityOK(baseIndex) =>
    \A at \in Walked :
      \A pv \in BaseCounterparts(at) :
        JsonEquiv(VersionAt(baseIndex, pv[1], pv[2]), PrVersionAt(at))
          => ~\E i \in ErrorsAbout("modifies existing version") : errAt[i] = at

(***************************************************************************)
(* C6                                                                      *)
(***************************************************************************)

\* C6: a retrieval that does not succeed (a response that is not ok, or a
\* fetch that fails) appends a download-failure error for that artifact and
\* never aborts the run: the later artifacts are still verified and the
\* result is built, with ok = false.
C6_FailedFetchReported ==
  \A k \in 1..Len(fetchLog) :
    fetchLog[k].outcome # "ok" =>
      /\ \E i \in ErrorsAbout("dist download failed") :
           errItem[i] = fetchLog[k].item
      /\ pc # "crashed"
      /\ pc = "done" => (result.ok = FALSE /\ Len(fetchLog) = Len(downloads))

(***************************************************************************)
(* C7                                                                      *)
(***************************************************************************)
DeclaredSha(at) == Get(Get(PrVersionAt(at), s_dist), s_sha256)
DeclaredUrl(at) == Get(Get(PrVersionAt(at), s_dist), s_url)
NonEmpty(v) == v.t \in {"arr", "obj"} \/ (v.t = "str" /\ v.s # <<>>)
                 \/ (v.t = "num" /\ v.n # 0) \/ v = Bool(TRUE)

\* C7: every new version of pr with a dist.url and a dist.sha256 is queued,
\* and when its fetch succeeds: if the SHA-256 of the bytes differs from the
\* declared sha256 in lower case, a hash-mismatch error with the version's
\* label is appended and the result has ok = false; if they are equal, no
\* integrity error is appended for that version.
C7_HashChecked ==
  /\ IdentityOK(baseIndex) =>
       \A at \in Walked :
         (PrVersionAt(at).t = "obj" /\ ~ExistsInBase(at)
            /\ NonEmpty(DeclaredUrl(at)) /\ NonEmpty(DeclaredSha(at)))
           => at \in Queued
  /\ \A k \in 1..Len(fetchLog) :
       fetchLog[k].outcome = "ok" =>
         LET item == fetchLog[k].item
             at == dlSrc[item]
         IN  IF Sha256Hex(fetchLog[k].body) # ToLowerCase(JsString(DeclaredSha(at)))
             THEN /\ \E i \in ErrorsAbout("dist sha256 mismatch") :
                       /\ errItem[i] = item
                       /\ errors[i].args
                            = <<VersionLabel(PrPluginAt(at), PrVersionAt(at))>>
                  /\ pc = "done" => result.ok = FALSE
             ELSE \A i \in IntegrityErrors : errItem[i] # item

C7_Witness ==
  /\ pc = "done"
  /\ result.ok = FALSE
  /\ Len(errors) = 1
  /\ errors[1].msg = "dist sha256 mismatch"
  /\ \E k \in 1..Len(fetchLog) :
       /\ fetchLog[k].outcome = "ok"
       /\ Sha256Hex(fetchLog[k].body)
            # ToLowerCase(JsString(DeclaredSha(dlSrc[fetchLog[k].item])))

(***************************************************************************)
(* C8                                                                      *)
(***************************************************************************)

\* C8: no version that exists in base is queued or fetched, whether changed
\* or not; every such version is compared instead; a pr plugin with no base
\* counterpart has none of its versions compared and all of them treated as
\* new.
C8_ExistingNotFetched ==
  IdentityOK(baseIndex) =>
    /\ \A at \in Queued : ~ExistsInBase(at)
    /\ \A k \in 1..Len(fetchLog) : ~ExistsInBase(dlSrc[fetchLog[k].item])
    /\ \A at \in Walked :
         /\ (PrVersionAt(at).t = "obj" /\ ExistsInBase(at)) => at \in compared
         /\ IsNewPlugin(at[1]) =>
              /\ at \notin compared
              /\ (PrVersionAt(at).t = "obj" /\ NonEmpty(DeclaredUrl(at))
                    /\ NonEmpty(DeclaredSha(at))) => at \in Queued

C8_Witness ==
  /\ pc = "done"
  /\ IdentityOK(baseIndex)
  /\ \E at \in Walked :
       /\ ExistsInBase(at)
       /\ at \in compared
       /\ at \notin Queued
       /\ \E i \in ErrorsAbout("modifies existing version") : errAt[i] = at
  /\ \E at \in Walked : IsNewPlugin(at[1]) /\ at \in Queued
  /\ Len(fetchLog) > 0

(***************************************************************************)
(* C9                                                                      *)
(***************************************************************************)

\* A dist shape error was reported for the version at position at.
DistErrorReported(at) ==
  \E i \in 1..Len(errors) :
    /\ errAt[i] = at
    /\ errors[i].msg \in {"dist must include type tgz, url, sha256",
                          "dist.url is invalid", "dist.url must use https",
                          "dist.url must end with .tgz"}

\* C9 as claimed: a new version for which a dist shape error was reported is
\* never queued and never fetched.
C9_ShapeErrorSuppressesFetch ==
  \A at \in Walked :
    (~ExistsInBase(at) /\ DistErrorReported(at)) =>
      /\ at \notin Queued
      /\ \A k \in 1..Len(fetchLog) : dlSrc[fetchLog[k].item] # at

\* C9 as amended: a new version is queued exactly when its dist.url and its
\* dist.sha256 are both present and not empty, with or without a dist shape
\* error; one whose dist, url or sha256 is missing or empty is never queued
\* and never fetched.
C9_MissingUrlOrShaSuppressesFetch ==
  /\ IdentityOK(baseIndex) =>
       \A at \in Walked :
         (~ExistsInBase(at) /\ PrVersionAt(at).t = "obj") =>
           (at \in Queued
              <=> (NonEmpty(DeclaredUrl(at)) /\ NonEmpty(DeclaredSha(at))))
  /\ \A k \in 1..Len(fetchLog) : fetchLog[k].item \in 1..Len(dlSrc)
  /\ \A at \in Queued : NonEmpty(DeclaredUrl(at)) /\ NonEmpty(DeclaredSha(at))

C9_Witness ==
  /\ pc = "done"
  /\ \E at \in Walked :
       /\ ~ExistsInBase(at)
       /\ DistErrorReported(at)
       /\ ~NonEmpty(DeclaredSha(at))
       /\ NonEmpty(DeclaredUrl(at))
       /\ at \notin Queued
  /\ \E at \in Walked : DistErrorReported(at) /\ at \in Queued
  /\ Len(fetchLog) > 0

(***************************************************************************)
(* C10                                                                     *)
(***************************************************************************)
PosLess(a, b) == a[1] < b[1] \/ (a[1] = b[1] /\ a[2] < b[2])

\* C10: verification is sequential and keeps the order: at most one fetch is
\* pending, the items are fetched in queue order, each one exactly once by
\* the time the run has ended, every integrity error comes after all shape
\* and immutability errors, the integrity errors are in queue order, and the
\* queue is in the order of the walk.
C10_SequentialInOrder ==
  /\ Cardinality(inflight) <= 1
  /\ \A k \in inflight : k = Len(fetchLog) + 1
  /\ \A k \in 1..Len(fetchLog) : fetchLog[k].item = k
  /\ Len(fetchLog) <= Len(downloads)
  /\ Ended => Len(fetchLog) = Len(downloads)
  /\ \A i, j \in 1..Len(errors) :
       i < j => /\ errItem[i] <= errItem[j]
                /\ errItem[i] > 0 => AfterWalk
  /\ \A k, l \in 1..Len(dlSrc) : k < l => PosLess(dlSrc[k], dlSrc[l])

=============================================================================
